---- MODULE Spec2Model ----
(***************************************************************************)
(* RCP_to_GEMS (python/RCP_conv.py): conversion of a Race Capture Pro csv  *)
(* log into the GEMS Dlog99 csv format.                                    *)
(*                                                                         *)
(* The model follows one call of RCP_to_GEMS.  The csv reader hands the    *)
(* function one line per reader.next(); the lines are chosen by the        *)
(* environment at each read.  The output file is the sequence of rows      *)
(* written so far.                                                         *)
(*                                                                         *)
(* Numbers.  A float x is the record [k |-> "num", n |-> N, r |-> R]       *)
(* standing for (N / Unit) * to_rads^R, so that int(), the subtraction of  *)
(* the start time, the division by 1000.0 and the multiplication by        *)
(* to_rads are all exact and none of them is the identity.  The empty csv  *)
(* field is the Python string '' (Empty).  An unquoted non-numeric token   *)
(* (Bad) makes reader.next() raise ValueError (QUOTE_NONNUMERIC); a NUL    *)
(* byte (Nul) makes it raise csv.Error.                                    *)
(*                                                                         *)
(* Strings of the title row are sequences of symbols, "|" being the        *)
(* character the code splits on.                                           *)
(*                                                                         *)
(* Taken as given: both files open (lines 28-31), the fields of the title  *)
(* row are quoted strings, and the fields of a data line are unquoted      *)
(* literals, empty, or a non-numeric token.  What the csv writer does to   *)
(* print a float is not modelled: the output holds the values written.     *)
(***************************************************************************)
EXTENDS Integers, Sequences, FiniteSets, TLC

VARIABLES
    pc,              \* phase of RCP_to_GEMS: "header", "skip", "seed", "stream";
                     \* it stays at the phase the call ended in
    num_of_sats,     \* parameter num_of_sats
    input_open,      \* input_file is open  (with-block, line 28)
    output_open,     \* output_file is open (with-block, line 31)
    line_num,        \* reader.line_num: lines read so far
    title_row,       \* the title row as read (line 37)
    header,          \* header (lines 36-39)
    GPSSats_index,   \* lines 42, 46
    Latitude_index,  \* lines 43, 47
    Longitude_index, \* lines 44, 48
    skipped,         \* line 54, 60
    start_time,      \* line 71
    start_time_gps,  \* line 72
    previous_row,    \* lines 84, 110
    output,          \* rows written by writer.writerows, in order
    result,          \* how the call ended: a returned pair or an escaping exception
    \* history of the run, read by the properties only
    bad_rows,        \* rows dropped with the "Illegal Character" warning
    eof,             \* reader.next() met the end of the file
    out_num,         \* for each row of output, the line it was made from
    out_t0,          \* for each row of output, field 0 of that line as read
    last_line,       \* the data line the reader was handed last
    qual_in,         \* the line that ended the skip loop (lines 57-59)
    seed_in,         \* the line reader.next() returned at line 70
    cur_in           \* the line reader.next() returned last at line 89

vars == <<pc, num_of_sats, input_open, output_open, line_num, title_row, header,
          GPSSats_index, Latitude_index, Longitude_index, skipped, start_time,
          start_time_gps, previous_row, output, result, bad_rows, eof,
          out_num, out_t0, last_line, qual_in, seed_in, cur_in>>

-----------------------------------------------------------------------------
(* Bounds of the model *)

MaxRows == 3          \* data lines the reader hands out before end of file

MsPerSec == 1000      \* the divisor 1000.0 of lines 99-100
Unit == 2 * MsPerSec  \* a number n stands for n / Unit: halves and 1/1000 are exact

-----------------------------------------------------------------------------
(* Values of csv fields *)

Empty == [k |-> "empty", n |-> 0, r |-> 0]     \* ''
Bad   == [k |-> "bad",   n |-> 0, r |-> 0]     \* unquoted non-numeric token
Nul   == [k |-> "nul",   n |-> 0, r |-> 0]     \* NUL byte in the line
Float(n, r) == [k |-> "num", n |-> n, r |-> r]
Half(h) == Float(h * (Unit \div 2), 0)         \* the input literal h/2
Zero == Float(0, 0)                            \* 0.0

(* A line of the input in the history: reader.line_num and the fields *)
LineAt(num, row) == [num |-> num, row |-> row]
NoRow == LineAt(0, <<>>)

(* int(x) of a float: truncation toward zero *)
IntOf(v) == IF v.n >= 0 THEN v.n \div Unit ELSE -((-v.n) \div Unit)

(* a slip in the rebasing: the subtraction the other way round *)
RebaseReversed(v, start) == Float((start - IntOf(v)) * (Unit \div MsPerSec), 0)

(* (int(x) - start)/1000.0 *)
Rebase(v, start) == Float((IntOf(v) - start) * (Unit \div MsPerSec), 0)

(* x * to_rads; 0.0 * to_rads is 0.0 *)
ToRads(v) == IF v.n = 0 THEN v ELSE Float(v.n, v.r + 1)

(* x >= num_of_sats in CPython 2: a str compares greater than any number *)
GreaterEq(v, n) == IF v.k = "empty" THEN TRUE ELSE v.n >= n * Unit

-----------------------------------------------------------------------------
(* Inputs: the title rows and the data lines the reader may hand out *)

TitleResolved == << <<"Interval", "|", "ms", "|", "1">>, <<"Utc", "|", "ms", "|", "1">>,
                    <<"GPSSats", "|", "sats", "|", "10">>, <<"Latitude", "|", "deg">>,
                    <<"Longitude", "|", "deg">> >>
TitleNoSats   == << <<"Interval">>, <<"Utc">>, <<"Battery", "|", "V">>,
                    <<"Latitude">>, <<"Longitude">> >>
TitleNoLon    == << <<"Interval">>, <<"Utc">>, <<"GPSSats">>,
                    <<"Latitude">>, <<"Speed">> >>
TitleSatsAt0  == << <<"GPSSats">>, <<"Utc">>, <<"Battery">>,
                    <<"Latitude", "|", "deg">>, <<"Longitude", "|", "deg">> >>
TitleLatAt0   == << <<"Latitude", "|", "deg">>, <<"Longitude", "|", "deg">>,
                    <<"GPSSats">>, <<"Battery">>, <<"Speed">> >>

Titles == {TitleResolved, TitleNoSats, TitleNoLon, TitleSatsAt0, TitleLatAt0}

NumCols == Len(TitleResolved)

Levels == {3, 8}          \* field i of a level-b line holds the literal (b + i - 1)/2
Thresholds == {0, 4}      \* values of num_of_sats

Base(b, len) == [i \in 1..len |-> Half(b + i - 1)]
Hole(row, p, tok) == [row EXCEPT ![p] = tok]

Lines ==
    {Base(b, NumCols) : b \in Levels \cup {-5}}
    \cup {Hole(Base(b, NumCols), p, Empty) : b \in Levels, p \in 1..NumCols}
    \cup {Hole(Base(b, NumCols), 3, Bad) : b \in Levels}
    \cup {Hole(Base(3, NumCols), 1, Nul)}
    \cup {Base(b, NumCols - 1) : b \in Levels}
    \cup {Base(b, NumCols + 1) : b \in Levels}
    \cup {Hole(Base(8, NumCols + 1), NumCols + 1, Empty)}

-----------------------------------------------------------------------------
(* Helpers of the code *)

Min(S) == CHOOSE x \in S : \A y \in S : x <= y

(* a slip in the split: the field is cut at its last "|" *)
SplitAtLastBar(column) ==
    LET bars == {i \in 1..Len(column) : column[i] = "|"}
    IN  IF bars = {} THEN column
        ELSE SubSeq(column, 1, (CHOOSE x \in bars : \A y \in bars : y <= x) - 1)

(* column.split("|")[0] *)
SplitFirst(column) ==
    LET bars == {i \in 1..Len(column) : column[i] = "|"}
    IN  IF bars = {} THEN column ELSE SubSeq(column, 1, Min(bars) - 1)

(* lines 36-39 *)
StripHeader(title) == [i \in 1..Len(title) |-> SplitFirst(title[i])]

(* header.index(name): the first position, from 0; absent raises ValueError *)
Has(h, name) == \E i \in 1..Len(h) : h[i] = <<name>>
IndexOf(h, name) == Min({i \in 1..Len(h) : h[i] = <<name>>}) - 1

(* a slip in the fallback: each name falls back to 0 on its own *)
ResolveEachAlone(h) ==
    [sats |-> IF Has(h, "GPSSats") THEN IndexOf(h, "GPSSats") ELSE 0,
     lat  |-> IF Has(h, "Latitude") THEN IndexOf(h, "Latitude") ELSE 0,
     lon  |-> IF Has(h, "Longitude") THEN IndexOf(h, "Longitude") ELSE 0]

(* lines 41-48: the three lookups succeed together or all three are 0 *)
ResolveIndices(h) ==
    IF Has(h, "GPSSats") /\ Has(h, "Latitude") /\ Has(h, "Longitude")
    THEN [sats |-> IndexOf(h, "GPSSats"), lat |-> IndexOf(h, "Latitude"),
          lon |-> IndexOf(h, "Longitude")]
    ELSE [sats |-> 0, lat |-> 0, lon |-> 0]

(* row[i] with Python's index from 0 *)
InRange(row, i) == i < Len(row)
At(row, i) == row[i + 1]

(* a slip in the except clauses: a non-numeric token is taken by the
   handler of all other exceptions *)
ReadOutcomeNoWarning(line) ==
    IF \E i \in 1..Len(line) : line[i].k \in {"bad", "nul"} THEN "Error" ELSE "row"

(* reader.next() on a line: the row, ValueError at the first non-numeric
   token, csv.Error at a NUL byte *)
ReadOutcome(line) ==
    LET odd == {i \in 1..Len(line) : line[i].k \in {"bad", "nul"}}
    IN  IF odd = {} THEN "row"
        ELSE IF line[Min(odd)].k = "bad" THEN "ValueError" ELSE "Error"

(* int(row[i]): IndexError, ValueError on '' or none *)
IntExc(row, i) ==
    IF ~InRange(row, i) THEN "IndexError"
    ELSE IF At(row, i) = Empty THEN "ValueError" ELSE "none"

(* a slip in the seed row: the blanks are left as they are *)
FillNothing(row) == row

(* lines 74-76 *)
FillZero(row) == [i \in 1..Len(row) |-> IF row[i] = Empty THEN Zero ELSE row[i]]

(* row[i] = row[i] * to_rads (lines 81-82, 102-103) *)
MulExc(row, i) ==
    IF ~InRange(row, i) THEN "IndexError"
    ELSE IF At(row, i) = Empty THEN "TypeError" ELSE "none"
MulRads(row, i) == [row EXCEPT ![i + 1] = ToRads(@)]

(* lines 106-108 *)
FillExc(row, prev) ==
    IF \E i \in 1..Len(row) : row[i] = Empty /\ i > Len(prev)
    THEN "IndexError" ELSE "none"
FillPrevious(row, prev) ==
    [i \in 1..Len(row) |-> IF row[i] = Empty THEN prev[i] ELSE row[i]]

(* a slip in the zeroing: only the interval time is set to 0.0 *)
ZeroIntervalOnly(row) == [row EXCEPT ![1] = Zero]

(* lines 78-79 *)
ZeroTimes(row) == [row EXCEPT ![1] = Zero, ![2] = Zero]

(* lines 70-84 on the row read: the exception that escapes, or the row written *)
SeedStep(row, sats, lat, lon) ==
    IF IntExc(row, 0) # "none" THEN [exc |-> IntExc(row, 0), row |-> row]
    ELSE IF IntExc(row, 1) # "none" THEN [exc |-> IntExc(row, 1), row |-> row]
    ELSE
    LET z == ZeroTimes(FillZero(row))
    IN  IF sats = 0 THEN [exc |-> "none", row |-> z]
        ELSE IF MulExc(z, lon) # "none" THEN [exc |-> MulExc(z, lon), row |-> row]
        ELSE LET z1 == MulRads(z, lon)
             IN  IF MulExc(z1, lat) # "none" THEN [exc |-> MulExc(z1, lat), row |-> row]
                 ELSE [exc |-> "none", row |-> MulRads(z1, lat)]

(* lines 99-111 on the row read *)
StreamStep(row, prev, st, stg, sats, lat, lon) ==
    IF IntExc(row, 0) # "none" THEN [exc |-> IntExc(row, 0), row |-> row]
    ELSE IF IntExc(row, 1) # "none" THEN [exc |-> IntExc(row, 1), row |-> row]
    ELSE
    LET t == [row EXCEPT ![1] = Rebase(row[1], st), ![2] = Rebase(row[2], stg)]
        conv == IF sats = 0 THEN [exc |-> "none", row |-> t]
                ELSE IF MulExc(t, lon) # "none" THEN [exc |-> MulExc(t, lon), row |-> row]
                ELSE LET t1 == MulRads(t, lon)
                     IN  IF MulExc(t1, lat) # "none"
                         THEN [exc |-> MulExc(t1, lat), row |-> row]
                         ELSE [exc |-> "none", row |-> MulRads(t1, lat)]
    IN  IF conv.exc # "none" THEN conv
        ELSE IF FillExc(conv.row, prev) # "none"
             THEN [exc |-> FillExc(conv.row, prev), row |-> row]
             ELSE [exc |-> "none", row |-> FillPrevious(conv.row, prev)]

-----------------------------------------------------------------------------
(* The call *)

NoResult == [kind |-> "none", ok |-> FALSE, val |-> "none"]

(* a slip in the returned pair: True whatever happened *)
ReturnedTrue(ok, val) == [kind |-> "return", ok |-> TRUE, val |-> val]

Returned(ok, val) == [kind |-> "return", ok |-> ok, val |-> val]
Raised(exc) == [kind |-> "raise", ok |-> FALSE, val |-> exc]

(* Entry of the inner with-block (line 31): both files are open, nothing read *)
Init ==
    /\ pc = "header"
    /\ num_of_sats \in Thresholds
    /\ input_open = TRUE
    /\ output_open = TRUE
    /\ line_num = 0
    /\ title_row = <<>>
    /\ header = <<>>
    /\ GPSSats_index = 0
    /\ Latitude_index = 0
    /\ Longitude_index = 0
    /\ skipped = 0
    /\ start_time = 0
    /\ start_time_gps = 0
    /\ previous_row = <<>>
    /\ output = <<>>
    /\ result = NoResult
    /\ bad_rows = 0
    /\ eof = FALSE
    /\ out_num = <<>>
    /\ out_t0 = <<>>
    /\ last_line = NoRow
    /\ qual_in = NoRow
    /\ seed_in = NoRow
    /\ cur_in = NoRow

(* a slip in the file handling: the output file is opened without a
   with-block and is never closed *)
LeaveOutputOpen(res) ==
    /\ result' = res
    /\ input_open' = FALSE
    /\ output_open' = output_open

(* Leaving the function, by return or by an exception: both with-blocks close *)
Leave(res) ==
    /\ result' = res
    /\ input_open' = FALSE
    /\ output_open' = FALSE

Running == result = NoResult
MoreInput == line_num - 1 < MaxRows

(* lines 36-53 *)
ReadHeader ==
    /\ Running
    /\ pc = "header"
    /\ \E title \in Titles :
         LET h == StripHeader(title)
             ix == ResolveIndices(h)
         IN  /\ title_row' = title
             /\ header' = h
             /\ GPSSats_index' = ix.sats
             /\ Latitude_index' = ix.lat
             /\ Longitude_index' = ix.lon
             /\ output' = Append(output, h)
             /\ pc' = IF ix.sats # 0 THEN "skip" ELSE "seed"
    /\ line_num' = line_num + 1
    /\ out_num' = Append(out_num, line_num + 1)
    /\ out_t0' = Append(out_t0, Empty)
    /\ UNCHANGED <<num_of_sats, input_open, output_open, skipped, start_time,
                   start_time_gps, previous_row, result, bad_rows, eof, last_line,
                   qual_in, seed_in, cur_in>>

(* reader.next() at the end of the file, in each phase:
   line 37: StopIteration escapes;
   line 57: StopIteration is caught by "except Exception" and returned;
   line 70: StopIteration escapes;
   lines 90-91: the call returns (True, output_filename) *)
EndOfFile ==
    /\ Running
    /\ eof' = TRUE
    /\ \/ /\ pc = "header"
          /\ Leave(Raised("StopIteration"))
       \/ /\ pc = "skip"
          /\ Leave(Returned(FALSE, "StopIteration"))
       \/ /\ pc = "seed"
          /\ Leave(Raised("StopIteration"))
       \/ /\ pc = "stream"
          /\ Leave(Returned(TRUE, "output_filename"))
    /\ UNCHANGED <<pc, num_of_sats, line_num, title_row, header, GPSSats_index,
                   Latitude_index, Longitude_index, skipped, start_time,
                   start_time_gps, previous_row, output, bad_rows, out_num,
                   out_t0, last_line, qual_in, seed_in, cur_in>>

(* lines 55-66, one turn of the loop on a line *)
SkipRead ==
    /\ Running
    /\ pc = "skip"
    /\ MoreInput
    /\ line_num' = line_num + 1
    /\ \E line \in Lines :
         LET how == ReadOutcome(line)
         IN  /\ last_line' = LineAt(line_num + 1, line)
             /\ \/ /\ how = "ValueError"
                   /\ bad_rows' = bad_rows + 1
                   /\ UNCHANGED <<pc, result, input_open, output_open, skipped, qual_in>>
                \/ /\ how = "Error"
                   /\ Leave(Returned(FALSE, "Error"))
                   /\ UNCHANGED <<pc, skipped, bad_rows, qual_in>>
                \/ /\ how = "row"
                   /\ ~InRange(line, GPSSats_index)
                   /\ Leave(Returned(FALSE, "IndexError"))
                   /\ UNCHANGED <<pc, skipped, bad_rows, qual_in>>
                \/ /\ how = "row"
                   /\ InRange(line, GPSSats_index)
                   /\ GreaterEq(At(line, GPSSats_index), num_of_sats)
                   /\ pc' = "seed"
                   /\ qual_in' = LineAt(line_num + 1, line)
                   /\ UNCHANGED <<result, input_open, output_open, skipped, bad_rows>>
                \/ /\ how = "row"
                   /\ InRange(line, GPSSats_index)
                   /\ ~GreaterEq(At(line, GPSSats_index), num_of_sats)
                   /\ skipped' = skipped + 1
                   /\ UNCHANGED <<pc, result, input_open, output_open, bad_rows, qual_in>>
    /\ UNCHANGED <<num_of_sats, title_row, header, GPSSats_index, Latitude_index,
                   Longitude_index, start_time, start_time_gps, previous_row,
                   output, eof, out_num, out_t0, seed_in, cur_in>>

(* lines 70-84 on a line; nothing here is inside a try *)
SeedRead ==
    /\ Running
    /\ pc = "seed"
    /\ MoreInput
    /\ line_num' = line_num + 1
    /\ \E line \in Lines :
         LET how == ReadOutcome(line)
             step == SeedStep(line, GPSSats_index, Latitude_index, Longitude_index)
         IN  /\ last_line' = LineAt(line_num + 1, line)
             /\ \/ /\ how # "row"
                   /\ Leave(Raised(how))
                   /\ UNCHANGED <<pc, start_time, start_time_gps, previous_row, output,
                                  out_num, out_t0, seed_in>>
                \/ /\ how = "row"
                   /\ step.exc # "none"
                   /\ Leave(Raised(step.exc))
                   /\ seed_in' = LineAt(line_num + 1, line)
                   /\ start_time' = IF IntExc(line, 0) = "none"
                                    THEN IntOf(At(line, 0)) ELSE start_time
                   /\ start_time_gps' = IF IntExc(line, 0) = "none" /\ IntExc(line, 1) = "none"
                                        THEN IntOf(At(line, 1)) ELSE start_time_gps
                   /\ UNCHANGED <<pc, previous_row, output, out_num, out_t0>>
                \/ /\ how = "row"
                   /\ step.exc = "none"
                   /\ seed_in' = LineAt(line_num + 1, line)
                   /\ start_time' = IntOf(At(line, 0))
                   /\ start_time_gps' = IntOf(At(line, 1))
                   /\ output' = Append(output, step.row)
                   /\ out_num' = Append(out_num, line_num + 1)
                   /\ out_t0' = Append(out_t0, At(line, 0))
                   /\ previous_row' = step.row
                   /\ pc' = "stream"
                   /\ UNCHANGED <<result, input_open, output_open>>
    /\ UNCHANGED <<num_of_sats, title_row, header, GPSSats_index, Latitude_index,
                   Longitude_index, skipped, bad_rows, eof, qual_in, cur_in>>

(* lines 88-111, one turn of the loop on a line *)
StreamRead ==
    /\ Running
    /\ pc = "stream"
    /\ MoreInput
    /\ line_num' = line_num + 1
    /\ \E line \in Lines :
         LET how == ReadOutcome(line)
             step == StreamStep(line, previous_row, start_time, start_time_gps,
                                GPSSats_index, Latitude_index, Longitude_index)
         IN  /\ last_line' = LineAt(line_num + 1, line)
             /\ \/ /\ how = "ValueError"
                   /\ bad_rows' = bad_rows + 1
                   /\ UNCHANGED <<result, input_open, output_open, previous_row,
                                  output, out_num, out_t0, cur_in>>
                \/ /\ how = "Error"
                   /\ Leave(Returned(FALSE, "Error"))
                   /\ UNCHANGED <<bad_rows, previous_row, output, out_num, out_t0, cur_in>>
                \/ /\ how = "row"
                   /\ step.exc # "none"
                   /\ Leave(Raised(step.exc))
                   /\ cur_in' = LineAt(line_num + 1, line)
                   /\ UNCHANGED <<bad_rows, previous_row, output, out_num, out_t0>>
                \/ /\ how = "row"
                   /\ step.exc = "none"
                   /\ cur_in' = LineAt(line_num + 1, line)
                   /\ previous_row' = step.row
                   /\ output' = Append(output, step.row)
                   /\ out_num' = Append(out_num, line_num + 1)
                   /\ out_t0' = Append(out_t0, At(line, 0))
                   /\ UNCHANGED <<result, input_open, output_open, bad_rows>>
    /\ UNCHANGED <<pc, num_of_sats, title_row, header, GPSSats_index, Latitude_index,
                   Longitude_index, skipped, start_time, start_time_gps, eof,
                   qual_in, seed_in>>

Next ==
    \/ ReadHeader
    \/ EndOfFile
    \/ SkipRead
    \/ SeedRead
    \/ StreamRead

Spec == Init /\ [][Next]_vars

(* The function is one sequential thread: while it has not returned or raised
   it takes its next step *)
FairSpec == Spec /\ WF_vars(Next)

-----------------------------------------------------------------------------
(* Properties *)

Last(seq) == seq[Len(seq)]

(* the input fields of the row written last *)
LastSource ==
    IF Len(out_num) < 2 THEN <<>>
    ELSE IF Last(out_num) = cur_in.num THEN cur_in.row
    ELSE IF Last(out_num) = seed_in.num THEN seed_in.row
    ELSE <<>>

(* C1: when the skip phase was entered, the row that ended it (the first row
   whose satellite count is >= num_of_sats) is the seed row: the first data
   row written is made from that line, and start_time and start_time_gps are
   its fields 0 and 1. *)
C1_SeedIsFirstQualifyingRow ==
    (qual_in # NoRow /\ Len(output) >= 2) =>
        /\ out_num[2] = qual_in.num
        /\ IntExc(qual_in.row, 0) = "none" /\ IntExc(qual_in.row, 1) = "none"
        /\ start_time = IntOf(At(qual_in.row, 0))
        /\ start_time_gps = IntOf(At(qual_in.row, 1))

(* C2: for every input that has a title row, the call ends by returning
   (True, output_filename) or (False, error); no exception escapes to the
   caller. *)
C2_NoExceptionEscapes == title_row # <<>> => result.kind # "raise"

(* C3: in every run that writes a data row, fields 0 and 1 of the first data
   row written are exactly 0.0. *)
C3_FirstRowZeroBased ==
    Len(output) >= 2 => (output[2][1] = Zero /\ output[2][2] = Zero)

(* C3 witness: the skip phase ran, Latitude is column 0 and is converted, and
   the seed line held a non-zero time *)
C3_Witness ==
    /\ Len(output) >= 2
    /\ qual_in # NoRow
    /\ Latitude_index = 0 /\ GPSSats_index # 0
    /\ seed_in.row[1].k = "num" /\ seed_in.row[1] # Zero
    /\ seed_in.row[2].k = "num" /\ seed_in.row[2] # Zero

(* C4: a row of the streaming loop with an empty field at a position k other
   than 0 and 1, the latitude and longitude columns included, is written, and
   its output field k is output field k of the row written before it.  Stated
   for rows that have as many fields as the header and as the row before. *)
C4_GapFill ==
    \A k \in 3..Len(cur_in.row) :
        ( /\ cur_in # NoRow
          /\ Len(cur_in.row) = Len(header)
          /\ Len(previous_row) = Len(header)
          /\ cur_in.row[k] = Empty )
        => /\ Last(out_num) = cur_in.num
           /\ Last(output)[k] = output[Len(output) - 1][k]

(* C5: whenever the header names GPSSats, Latitude and Longitude, at whatever
   positions, the latitude and longitude fields of every row written are the
   input values multiplied once by to_rads.  Stated for latitude and longitude
   columns that are not the two time columns. *)
C5_RadiansWheneverNamed ==
    ( /\ Has(header, "GPSSats") /\ Has(header, "Latitude") /\ Has(header, "Longitude")
      /\ IndexOf(header, "Latitude") >= 2 /\ IndexOf(header, "Longitude") >= 2
      /\ LastSource # <<>> )
    => \A c \in {IndexOf(header, "Latitude"), IndexOf(header, "Longitude")} :
           (InRange(LastSource, c) /\ At(LastSource, c).k = "num"
                /\ At(LastSource, c) # Zero)
           => At(Last(output), c) = Float(At(LastSource, c).n, 1)

(* C6: on success, the data rows of the output are the input data rows less
   the malformed rows less the rows the skip phase dropped for a satellite
   count below num_of_sats. *)
C6_RowAccounting ==
    (result.kind = "return" /\ result.ok)
    => Len(output) - 1 = (line_num - 1) - bad_rows - skipped

(* C7: with the columns resolved and num_of_sats = 0 nothing is skipped: when
   no row was malformed the first input data row (line 2) is the seed row. *)
C7_ZeroSkipsNothing ==
    (GPSSats_index # 0 /\ num_of_sats = 0 /\ bad_rows = 0 /\ Len(output) >= 2)
    => out_num[2] = 2

(* C8: when the end of the file is met in the skip phase the output holds the
   header row only, and the outcome is not an error: the call neither returns
   a failure pair, as it does for a fatal read error, nor raises. *)
C8_SkipEofIsNotAnError ==
    (eof /\ pc = "skip")
    => /\ output = <<header>>
       /\ ~(result.kind = "return" /\ ~result.ok)
       /\ result.kind # "raise"

(* C9: every data row written has exactly as many fields as the header row. *)
C9_FieldCountIsHeaders ==
    \A i \in 2..Len(output) : Len(output[i]) = Len(output[1])

(* f truncated at its first "|" is o *)
IsCutAtFirstBar(o, f) ==
    /\ Len(o) <= Len(f)
    /\ \A j \in 1..Len(o) : o[j] = f[j] /\ o[j] # "|"
    /\ Len(o) < Len(f) => f[Len(o) + 1] = "|"

(* C10: once the title row is read, the first row of the output is the title
   row with each field cut at its first "|", field for field and in order; it
   is written before any data line is read and is there on every exit. *)
C10_HeaderFidelity ==
    title_row # <<>> =>
        /\ Len(output) >= 1
        /\ out_num[1] = 1
        /\ Len(output[1]) = Len(title_row)
        /\ \A i \in 1..Len(title_row) : IsCutAtFirstBar(output[1][i], title_row[i])

(* C10 witness: a title row whose fields hold two "|", and the call over with
   a failure in the skip phase *)
C10_Witness ==
    /\ title_row = TitleResolved
    /\ result.kind = "return" /\ ~result.ok
    /\ pc = "skip"

(* C11: a data line whose field count is not the header's, met in the skip
   phase, as the seed row or in the streaming loop, is fatal: once it is read
   the call is over with a failure result and the line is not written. *)
C11_WrongFieldCountIsFatal ==
    (last_line # NoRow /\ ReadOutcome(last_line.row) = "row"
        /\ Len(last_line.row) # Len(header))
    => /\ result.kind = "return" /\ ~result.ok
       /\ \A i \in 1..Len(out_num) : out_num[i] # last_line.num

HasBadToken(row) == \E i \in 1..Len(row) : row[i].k = "bad"

(* C12: in the streaming loop a line with a non-numeric token is skipped
   entirely: the step that reads it writes nothing, leaves start_time,
   start_time_gps and previous_row as they were and does not end the call, so
   the run goes on from the state it would be in without that line. *)
C12_BadRowLeavesNoTrace ==
    [][ (pc = "stream" /\ last_line' # last_line /\ HasBadToken(last_line'.row))
        => /\ UNCHANGED <<output, out_num, start_time, start_time_gps, previous_row>>
           /\ UNCHANGED <<pc, result, input_open, output_open, skipped, cur_in,
                          GPSSats_index, Latitude_index, Longitude_index>> ]_vars

(* C12 witness: line 3 held a non-numeric token and was dropped; line 4 was
   written with its empty GPSSats field filled from the seed row *)
C12_Witness ==
    /\ out_num = <<1, 2, 4>>
    /\ bad_rows = 1
    /\ cur_in.num = 4 /\ Len(cur_in.row) >= 3 /\ cur_in.row[3] = Empty
    /\ output[3][3] = output[2][3]

(* C13: if one of the names GPSSats, Latitude, Longitude is absent from the
   stripped header, the three indices are 0 together, the skip phase is not
   entered (the first data line is the seed row whatever num_of_sats is), and
   no field of a written row is multiplied by to_rads. *)
C13_JointFallback ==
    ( /\ header # <<>>
      /\ ~(Has(header, "GPSSats") /\ Has(header, "Latitude") /\ Has(header, "Longitude")) )
    => /\ GPSSats_index = 0 /\ Latitude_index = 0 /\ Longitude_index = 0
       /\ pc # "skip" /\ qual_in = NoRow /\ skipped = 0
       /\ Len(output) >= 2 => out_num[2] = 2
       /\ \A i \in 2..Len(output) : \A k \in 1..Len(output[i]) : output[i][k].r = 0

(* C13 witness: GPSSats and Latitude are named, Longitude is not; the seed row
   is the first data line although its satellite count is below num_of_sats,
   and a second row is written *)
C13_Witness ==
    /\ title_row = TitleNoLon
    /\ num_of_sats = 4
    /\ Len(output) >= 3
    /\ Len(seed_in.row) >= 3 /\ ~GreaterEq(seed_in.row[3], num_of_sats)

(* a <= b for two floats of the model; to_rads > 0, so the order is that of
   the numerators when the powers of to_rads agree or one side is 0.0 *)
Comparable(a, b) == a.r = b.r \/ a.n = 0 \/ b.n = 0

(* C14: start_time is int(field 0) of the seed line, and for every two
   consecutive written rows, output field 0 of the later is >= output field 0
   of the earlier whenever their input fields 0 are non-decreasing. *)
C14_RebasingKeepsOrder ==
    /\ Len(output) >= 2 => start_time = IntOf(out_t0[2])
    /\ \A i \in 2..(Len(output) - 1) :
          out_t0[i].n <= out_t0[i + 1].n
          => /\ Comparable(output[i][1], output[i + 1][1])
             /\ output[i][1].n <= output[i + 1][1].n

(* C14 witness: three written rows with rising input times, the last two
   rebased to rising positive times *)
C14_Witness ==
    /\ Len(output) = 4
    /\ out_t0[2].n < out_t0[3].n /\ out_t0[3].n < out_t0[4].n
    /\ output[3][1].n > 0 /\ output[4][1].n > output[3][1].n

Success == result.kind = "return" /\ result.ok

(* C15: the run ends for every finite input; the end of the file met in the
   streaming loop ends it with (True, output_filename); success is returned
   in that way only, so on success the output holds the header and at least
   one data row. *)
C15_Termination ==
    /\ <>(~Running)
    /\ []((eof /\ pc = "stream") => (Success /\ result.val = "output_filename"))
    /\ [](Success => (eof /\ pc = "stream" /\ Len(output) >= 2 /\ output[1] = header))

(* C15 witness: success after a run that went through the skip loop and
   wrote two rows *)
C15_Witness ==
    /\ Success
    /\ qual_in # NoRow
    /\ Len(output) = 3

(* C16: the input file and the output file are closed in every terminal state
   of the call: success, end of file in the skip phase, a failure result and
   an escaping exception; they are open while it runs. *)
C16_FilesClosedAtExit ==
    /\ ~Running => (~input_open /\ ~output_open)
    /\ Running => (input_open /\ output_open)

(* C16 witness: the call was left by an exception after the seed row was
   written *)
C16_Witness ==
    /\ result.kind = "raise"
    /\ Len(output) >= 2
    /\ ~input_open /\ ~output_open

(* C17: no data row written holds an empty field, and neither does
   previous_row. *)
C17_NoEmptyFieldWritten ==
    /\ \A i \in 2..Len(output) : \A k \in 1..Len(output[i]) : output[i][k] # Empty
    /\ \A k \in 1..Len(previous_row) : previous_row[k] # Empty

(* C17 witness: the seed line and the line written after it both had an empty
   field *)
C17_Witness ==
    /\ Len(output) >= 3
    /\ Last(out_num) = cur_in.num
    /\ \E k \in 1..Len(seed_in.row) : seed_in.row[k] = Empty
    /\ \E k \in 1..Len(cur_in.row) : cur_in.row[k] = Empty

====
